---- MODULE Spec2Model ----
(***************************************************************************)
(* Model of the numerical helpers and chunk preprocessing routines of      *)
(* D-MMVAE:                                                                *)
(*   mmvae/trainers/utils.py              kl_divergence, cyclic_annealing, *)
(*                                        calculate_r2                     *)
(*   scripts/data-preprocessing/          normalize_data, verify_data,     *)
(*     data_processing_functions.py       extract_file_number              *)
(*   src/cmmvae/runners/logger.py         the job log browser              *)
(*                                                                         *)
(* Floating point numbers are modelled as exact rationals extended with    *)
(* nan, inf and -inf (the values a division by zero produces); exp and     *)
(* log1p are kept symbolic, so no rounding is modelled.                    *)
(***************************************************************************)
EXTENDS Integers, Sequences, FiniteSets, TLC

(***************************************************************************)
(* Bounds of the model.                                                    *)
(***************************************************************************)
MaxIter == 6      \* batch_iteration ranges over -MaxIter..MaxIter
MaxCycle == 4     \* cycle_length ranges over 1..MaxCycle
MaxBeta == 2      \* min_beta, max_beta range over -1..MaxBeta
MaxLen == 3       \* tensors hold at most MaxLen elements
MaxVal == 1       \* tensor elements range over 0..MaxVal (calculate_r2)
MaxRows == 2      \* a sparse matrix has at most MaxRows rows
MaxCols == 2      \* and MaxCols columns
MaxCount == 1     \* stored raw counts range over 0..MaxCount
MaxChunks == 2    \* chunk files are numbered 1..MaxChunks
MaxJobId == 10    \* job ids of a log directory range over 1..MaxJobId
MaxN == 3         \* history -n ranges over 0..MaxN
MaxDepth == 6     \* the call stack of the log browser holds at most MaxDepth frames

\* A variable that holds no value yet (the function has not returned).
NoValue == [k |-> "none"]

(***************************************************************************)
(* Numbers: a float is nan, inf, -inf or an exact rational n/d (d > 0, in  *)
(* lowest terms).                                                          *)
(***************************************************************************)
Abs(x) == IF x < 0 THEN -x ELSE x

RECURSIVE GCD(_, _)
GCD(a, b) == IF b = 0 THEN a ELSE GCD(b, a % b)

Rat(n, d) ==
    LET g == GCD(Abs(n), Abs(d))
        s == IF d < 0 THEN -1 ELSE 1
    IN  [k |-> "num", n |-> (s * n) \div g, d |-> (s * d) \div g]

Num(i) == [k |-> "num", n |-> i, d |-> 1]
NaN == [k |-> "nan"]
PosInf == [k |-> "inf"]
NegInf == [k |-> "-inf"]

IsNum(x) == x.k = "num"
Sign(x) ==
    IF x.k = "inf" THEN 1
    ELSE IF x.k = "-inf" THEN -1
    ELSE IF x.n > 0 THEN 1 ELSE IF x.n < 0 THEN -1 ELSE 0
Signed(s) == IF s > 0 THEN PosInf ELSE NegInf

FNeg(x) ==
    IF x.k = "nan" THEN NaN
    ELSE IF x.k = "inf" THEN NegInf
    ELSE IF x.k = "-inf" THEN PosInf
    ELSE Rat(-x.n, x.d)

FAdd(x, y) ==
    IF x.k = "nan" \/ y.k = "nan" THEN NaN
    ELSE IF IsNum(x) /\ IsNum(y) THEN Rat(x.n * y.d + y.n * x.d, x.d * y.d)
    ELSE IF IsNum(x) THEN y
    ELSE IF IsNum(y) THEN x
    ELSE IF x.k = y.k THEN x ELSE NaN

FSub(x, y) == FAdd(x, FNeg(y))

FMul(x, y) ==
    IF x.k = "nan" \/ y.k = "nan" THEN NaN
    ELSE IF IsNum(x) /\ IsNum(y) THEN Rat(x.n * y.n, x.d * y.d)
    ELSE IF Sign(x) = 0 \/ Sign(y) = 0 THEN NaN
    ELSE Signed(Sign(x) * Sign(y))

\* IEEE division as numpy and torch perform it: x/0 is nan, inf or -inf.
FDiv(x, y) ==
    IF x.k = "nan" \/ y.k = "nan" THEN NaN
    ELSE IF IsNum(x) /\ IsNum(y) THEN
        IF y.n = 0 THEN (IF x.n = 0 THEN NaN ELSE Signed(Sign(x)))
        ELSE Rat(x.n * y.d, x.d * y.n)
    ELSE IF IsNum(y) THEN (IF y.n = 0 THEN x ELSE Signed(Sign(x) * Sign(y)))
    ELSE IF IsNum(x) THEN Num(0)
    ELSE NaN

\* Comparisons are false when an operand is nan.
FLt(x, y) ==
    /\ x.k # "nan" /\ y.k # "nan"
    /\ IF IsNum(x) /\ IsNum(y) THEN x.n * y.d < y.n * x.d
       ELSE IF x.k = y.k THEN FALSE
       ELSE x.k = "-inf" \/ y.k = "inf"
FLe(x, y) == x.k # "nan" /\ y.k # "nan" /\ (x = y \/ FLt(x, y))

RECURSIVE FSum(_)
FSum(s) == IF s = <<>> THEN Num(0) ELSE FAdd(Head(s), FSum(Tail(s)))

(***************************************************************************)
(* State.                                                                  *)
(***************************************************************************)
VARIABLES
    \* cyclic_annealing: arguments and returned beta_value
    batch_iteration, cycle_length, min_beta, max_beta,
    ceil_downswings, floor_upswings, beta_value,
    \* calculate_r2: arguments, the locals ss_tot and ss_res, and the outcome
    \* (the returned r2_score or the raised exception)
    input, target, ss_tot, ss_res, r2_score,
    \* kl_divergence: arguments and the returned divergence
    mu, logvar, kl,
    \* normalize_data: the CSR matrix `data` (shape, indptr, indices and the
    \* value array data.data) and whether the call has returned
    csr_shape, csr_indptr, csr_indices, csr_data, normalized,
    \* verify_data: the .npz and .pkl files of the directory (path -> row
    \* count of the matrix, path -> soma_joinid column), the arguments, the
    \* pairs loaded, the lines printed and whether the call has returned
    npz_files, pkl_files, expected_size, last_chunk, last_size, ids,
    loaded, printed, verified,
    \* get_last_job_id, get_last_n_job_ids: the file names of rule_dir, the
    \* argument n and the two results
    rule_dir, n_jobs, last_job_id, last_n_job_ids,
    \* Logger: the file names of <log_dir>/submission, the state of the rule
    \* log files by file type, self._view_history, the call stack, the state
    \* of the process and the last call of view_rule_files
    submission_dir, rule_files, view_history, stack, status, vrf

annealVars == <<batch_iteration, cycle_length, min_beta, max_beta,
                ceil_downswings, floor_upswings, beta_value>>
r2Vars == <<input, target, ss_tot, ss_res, r2_score>>
klVars == <<mu, logvar, kl>>
csrVars == <<csr_shape, csr_indptr, csr_indices, csr_data, normalized>>
verifyVars == <<npz_files, pkl_files, expected_size, last_chunk, last_size,
                ids, loaded, printed, verified>>
jobsVars == <<rule_dir, n_jobs, last_job_id, last_n_job_ids>>
loggerVars == <<submission_dir, rule_files, view_history, stack, status, vrf>>
logVars == <<jobsVars, loggerVars>>
vars == <<annealVars, r2Vars, klVars, csrVars, verifyVars, logVars>>

(***************************************************************************)
(* Tensors: a shape and the elements in row-major order.                   *)
(***************************************************************************)
RECURSIVE Prod(_)
Prod(s) == IF s = <<>> THEN 1 ELSE Head(s) * Prod(Tail(s))

Shapes == {<<n>> : n \in 0..MaxLen} \cup {<<1, n>> : n \in 1..MaxLen}
Tensor(shape, data) == [shape |-> shape, data |-> data]
TensorsOver(V) ==
    UNION {{Tensor(sh, d) : d \in [1..Prod(sh) -> V]} : sh \in Shapes}

Numel(t) == Len(t.data)
\* tensor - scalar, tensor - tensor (same shape), tensor ** 2, sum, mean
SubScalar(t, c) == Tensor(t.shape, [i \in 1..Numel(t) |-> FSub(t.data[i], c)])
SubTensor(t, u) == Tensor(t.shape, [i \in 1..Numel(t) |-> FSub(t.data[i], u.data[i])])
Square(t) == Tensor(t.shape, [i \in 1..Numel(t) |-> FMul(t.data[i], t.data[i])])
SumT(t) == FSum(t.data)
MeanT(t) == FDiv(SumT(t), Num(Numel(t)))


(***************************************************************************)
(* cyclic_annealing (mmvae/trainers/utils.py)                              *)
(***************************************************************************)
\* Mutants of cyclic_annealing: a downswing measured from the cycle start,
\* and an upswing that includes the midpoint.
cyclic_annealing_downFromStart(bi, cl, minb, maxb, ceil, floor) ==
    LET cycle_position == bi % cl
        half == FDiv(Num(cl), Num(2))
    IN  IF FLt(Num(cycle_position), half)
        THEN IF floor THEN minb
             ELSE FAdd(minb, FMul(FSub(maxb, minb),
                                  FDiv(Num(2 * cycle_position), Num(cl))))
        ELSE IF ceil THEN maxb
             ELSE FSub(maxb, FMul(FSub(maxb, minb),
                                  FDiv(Num(2 * cycle_position), Num(cl))))

cyclic_annealing_midpointInUpswing(bi, cl, minb, maxb, ceil, floor) ==
    LET cycle_position == bi % cl
        half == FDiv(Num(cl), Num(2))
    IN  IF FLe(Num(cycle_position), half)
        THEN IF floor THEN minb
             ELSE FAdd(minb, FMul(FSub(maxb, minb),
                                  FDiv(Num(2 * cycle_position), Num(cl))))
        ELSE IF ceil THEN maxb
             ELSE FSub(maxb, FMul(FSub(maxb, minb),
                                  FDiv(FMul(Num(2), FSub(Num(cycle_position), half)),
                                       Num(cl))))

cyclic_annealing(bi, cl, minb, maxb, ceil, floor) ==
    LET cycle_position == bi % cl
        half == FDiv(Num(cl), Num(2))
    IN  IF FLt(Num(cycle_position), half)
        THEN IF floor THEN minb
             ELSE FAdd(minb, FMul(FSub(maxb, minb),
                                  FDiv(Num(2 * cycle_position), Num(cl))))
        ELSE IF ceil THEN maxb
             ELSE FSub(maxb, FMul(FSub(maxb, minb),
                                  FDiv(FMul(Num(2), FSub(Num(cycle_position), half)),
                                       Num(cl))))

IdleR2 ==
    /\ input = Tensor(<<0>>, <<>>) /\ target = Tensor(<<0>>, <<>>)
    /\ ss_tot = NoValue /\ ss_res = NoValue /\ r2_score = NoValue

IdleKL ==
    /\ mu = Tensor(<<0>>, <<>>) /\ logvar = Tensor(<<0>>, <<>>)
    /\ kl = NoValue

IdleNorm ==
    /\ csr_shape = <<0, 0>> /\ csr_indptr = <<0>>
    /\ csr_indices = <<>> /\ csr_data = <<>>
    /\ normalized = FALSE

\* An optional argument is the empty set for None and {v} for the value v.
PyNone == {}
Some(v) == {v}

IdleVerify ==
    /\ npz_files = <<>> /\ pkl_files = <<>>
    /\ expected_size = 1 /\ last_chunk = PyNone /\ last_size = PyNone
    /\ ids = {} /\ loaded = <<>> /\ printed = <<>> /\ verified = FALSE

IdleJobs ==
    /\ rule_dir = {} /\ n_jobs = 0
    /\ last_job_id = NoValue /\ last_n_job_ids = NoValue

IdleLogger ==
    /\ submission_dir = {} /\ rule_files = <<>>
    /\ view_history = <<>> /\ stack = <<>>
    /\ status = "idle" /\ vrf = NoValue

IdleLogs == IdleJobs /\ IdleLogger

IdleAnneal ==
    /\ batch_iteration = 0 /\ cycle_length = 1
    /\ min_beta = Num(0) /\ max_beta = Num(1)
    /\ ceil_downswings = TRUE /\ floor_upswings = FALSE
    /\ beta_value = NoValue

InitAnneal ==
    /\ batch_iteration \in -MaxIter..MaxIter
    /\ cycle_length \in 1..MaxCycle
    /\ min_beta \in {Num(b) : b \in -1..MaxBeta}
    /\ max_beta \in {Num(b) : b \in -1..MaxBeta}
    /\ ceil_downswings \in BOOLEAN
    /\ floor_upswings \in BOOLEAN
    /\ beta_value = NoValue
    /\ IdleR2 /\ IdleKL /\ IdleNorm /\ IdleVerify /\ IdleLogs

CyclicAnnealing ==
    /\ beta_value = NoValue
    /\ beta_value' = cyclic_annealing(batch_iteration, cycle_length, min_beta,
                                      max_beta, ceil_downswings, floor_upswings)
    /\ UNCHANGED <<batch_iteration, cycle_length, min_beta, max_beta,
                   ceil_downswings, floor_upswings>>
    /\ UNCHANGED <<r2Vars, klVars, csrVars, verifyVars, logVars>>

NextAnneal == CyclicAnnealing
SpecAnneal == InitAnneal /\ [][NextAnneal]_vars

(***************************************************************************)
(* calculate_r2 (mmvae/trainers/utils.py)                                  *)
(***************************************************************************)
Raise(exc) == [k |-> "raise", exc |-> exc]
Return(v) == [k |-> "return", value |-> v]

\* Mutants of calculate_r2: residuals taken against the mean instead of the
\* target, and a shape check that only compares the element counts.
calculate_r2_residualsFromMean(inp, tgt) ==
    IF inp.shape # tgt.shape
    THEN [out |-> Raise("ValueError"), ss_tot |-> NoValue, ss_res |-> NoValue]
    ELSE LET mean_input == MeanT(inp)
             tot == SumT(Square(SubScalar(inp, mean_input)))
             res == SumT(Square(SubScalar(tgt, mean_input)))
         IN  [out |-> Return(FSub(Num(1), FDiv(res, tot))),
              ss_tot |-> tot, ss_res |-> res]

calculate_r2_numelCheck(inp, tgt) ==
    IF Numel(inp) # Numel(tgt)
    THEN [out |-> Raise("ValueError"), ss_tot |-> NoValue, ss_res |-> NoValue]
    ELSE LET mean_input == MeanT(inp)
             tot == SumT(Square(SubScalar(inp, mean_input)))
             res == SumT(Square(SubTensor(inp, tgt)))
         IN  [out |-> Return(FSub(Num(1), FDiv(res, tot))),
              ss_tot |-> tot, ss_res |-> res]

\* The outcome of a call and the locals it assigned before it finished.
calculate_r2(inp, tgt) ==
    IF inp.shape # tgt.shape
    THEN [out |-> Raise("ValueError"), ss_tot |-> NoValue, ss_res |-> NoValue]
    ELSE LET mean_input == MeanT(inp)
             tot == SumT(Square(SubScalar(inp, mean_input)))
             res == SumT(Square(SubTensor(inp, tgt)))
         IN  [out |-> Return(FSub(Num(1), FDiv(res, tot))),
              ss_tot |-> tot, ss_res |-> res]

R2Values == {Num(v) : v \in 0..MaxVal}

InitR2 ==
    /\ IdleAnneal /\ IdleKL /\ IdleNorm /\ IdleVerify /\ IdleLogs
    /\ input \in TensorsOver(R2Values)
    /\ target \in TensorsOver(R2Values)
    /\ ss_tot = NoValue /\ ss_res = NoValue /\ r2_score = NoValue

CalculateR2 ==
    /\ r2_score = NoValue
    /\ LET r == calculate_r2(input, target)
       IN  /\ r2_score' = r.out
           /\ ss_tot' = r.ss_tot
           /\ ss_res' = r.ss_res
    /\ UNCHANGED <<input, target>>
    /\ UNCHANGED <<annealVars, klVars, csrVars, verifyVars, logVars>>

NextR2 == CalculateR2
SpecR2 == InitR2 /\ [][NextR2]_vars

(***************************************************************************)
(* kl_divergence (mmvae/trainers/utils.py)                                 *)
(*                                                                         *)
(* exp is kept symbolic.  A value is a combination sum_e c[e] * exp(e)     *)
(* with rational coefficients over the integer exponents e, exp(0) being   *)
(* 1; as e is transcendental, two values are equal exactly when their      *)
(* coefficients are.                                                       *)
(***************************************************************************)
Exponents == -1..MaxVal
EZero == [e \in Exponents |-> Num(0)]
EConst(c) == [e \in Exponents |-> IF e = 0 THEN c ELSE Num(0)]
EExp(x) == [e \in Exponents |-> IF Num(e) = x THEN Num(1) ELSE Num(0)]
EAdd(a, b) == [e \in Exponents |-> FAdd(a[e], b[e])]
ESub(a, b) == [e \in Exponents |-> FSub(a[e], b[e])]
EScale(c, a) == [e \in Exponents |-> FMul(c, a[e])]

RECURSIVE ESum(_)
ESum(s) == IF s = <<>> THEN EZero ELSE EAdd(Head(s), ESum(Tail(s)))

\* Mutant of kl_divergence: the constant 1 of each term is dropped.
kl_divergence_noOne(m, lv) ==
    LET term(i) == ESub(ESub(EConst(lv.data[i]),
                             EConst(FMul(m.data[i], m.data[i]))),
                        EExp(lv.data[i]))
    IN  EScale(Rat(-1, 2), ESum([i \in 1..Numel(m) |-> term(i)]))

\* -0.5 * torch.sum(1 + logvar - mu.pow(2) - logvar.exp())
kl_divergence(m, lv) ==
    LET term(i) == ESub(ESub(EAdd(EConst(Num(1)), EConst(lv.data[i])),
                             EConst(FMul(m.data[i], m.data[i]))),
                        EExp(lv.data[i]))
    IN  EScale(Rat(-1, 2), ESum([i \in 1..Numel(m) |-> term(i)]))

KLValues == {Num(v) : v \in Exponents}

\* mu and logvar are the two outputs of one encoder: they share their shape.
InitKL ==
    /\ IdleAnneal /\ IdleR2 /\ IdleNorm /\ IdleVerify /\ IdleLogs
    /\ mu \in TensorsOver(KLValues)
    /\ logvar \in {t \in TensorsOver(KLValues) : t.shape = mu.shape}
    /\ kl = NoValue

KlDivergence ==
    /\ kl = NoValue
    /\ kl' = Return(kl_divergence(mu, logvar))
    /\ UNCHANGED <<mu, logvar>>
    /\ UNCHANGED <<annealVars, r2Vars, csrVars, verifyVars, logVars>>

NextKL == KlDivergence
SpecKL == InitKL /\ [][NextKL]_vars

(***************************************************************************)
(* normalize_data (scripts/data-preprocessing/data_processing_functions.py)*)
(*                                                                         *)
(* log1p is kept symbolic: Log1p(x) records its argument.  Arrays are      *)
(* sequences; At and Slice index them from 0 as Python does.               *)
(***************************************************************************)
ScaleFactor == 10000

Log1p(x) ==
    IF x.k = "nan" \/ x.k = "-inf" THEN NaN
    ELSE IF x.k = "inf" THEN PosInf
    ELSE IF FLt(x, Num(-1)) THEN NaN
    ELSE IF x = Num(-1) THEN NegInf
    ELSE [k |-> "log1p", x |-> x]

At(a, i) == a[i + 1]
Slice(a, start, end) == [j \in 1..(end - start) |-> a[start + j]]
\* a[start:end] = v
SetSlice(a, start, end, v) ==
    [j \in 1..Len(a) |-> IF start < j /\ j <= end THEN v[j - start] ELSE a[j]]

\* data.getrow(row).data: the stored values of one row
GetRowData(indptr, d, row) == Slice(d, At(indptr, row), At(indptr, row + 1))

\* Mutants of NormalizeRow: a scale of 1e3, and a last row whose slice runs
\* to the end of the value array.
NormalizeRow_scale1e3(indptr, d, row) ==
    LET start_idx == At(indptr, row)
        end_idx == At(indptr, row + 1)
        row_data == GetRowData(indptr, d, row)
        row_sum == FSum(row_data)
    IN  SetSlice(d, start_idx, end_idx,
                 [j \in 1..Len(row_data) |->
                     Log1p(FDiv(FMul(row_data[j], Num(1000)), row_sum))])

NormalizeRow_throughEnd(indptr, d, row) ==
    LET start_idx == At(indptr, row)
        end_idx == IF row + 2 = Len(indptr) THEN Len(d) ELSE At(indptr, row + 1)
        row_data == Slice(d, start_idx, end_idx)
        row_sum == FSum(row_data)
    IN  SetSlice(d, start_idx, end_idx,
                 [j \in 1..Len(row_data) |->
                     Log1p(FDiv(FMul(row_data[j], Num(ScaleFactor)), row_sum))])

\* One iteration of the loop: returns data.data after row `row` is rewritten.
NormalizeRow(indptr, d, row) ==
    LET start_idx == At(indptr, row)
        end_idx == At(indptr, row + 1)
        row_data == GetRowData(indptr, d, row)
        row_sum == FSum(row_data)
    IN  SetSlice(d, start_idx, end_idx,
                 [j \in 1..Len(row_data) |->
                     Log1p(FDiv(FMul(row_data[j], Num(ScaleFactor)), row_sum))])

\* for row in range(data.shape[0]): the rows from `row` on
RECURSIVE normalize_data(_, _, _, _)
normalize_data(shape, indptr, d, row) ==
    IF row >= shape[1] THEN d
    ELSE normalize_data(shape, indptr, NormalizeRow(indptr, d, row), row + 1)

\* The CSR arrays of a matrix given row by row, each row a function from
\* its stored columns to the stored values (columns ascending).
RECURSIVE SortedSeq(_)
SortedSeq(S) ==
    IF S = {} THEN <<>>
    ELSE LET m == CHOOSE x \in S : \A y \in S : x <= y
         IN  <<m>> \o SortedSeq(S \ {m})

RECURSIVE BuildCSR(_)
BuildCSR(rows) ==
    IF rows = <<>> THEN [indptr |-> <<0>>, indices |-> <<>>, data |-> <<>>]
    ELSE LET n == Len(rows)
             m == BuildCSR(SubSeq(rows, 1, n - 1))
             cols == SortedSeq(DOMAIN rows[n])
         IN  [indptr |-> Append(m.indptr, Len(m.data) + Len(cols)),
              indices |-> m.indices \o cols,
              data |-> m.data \o [j \in 1..Len(cols) |-> Num(rows[n][cols[j]])]]

\* normalize_data never reads the column indices: the stored columns of a row
\* are taken to be its first k columns, 0 <= k <= ncols.
RowContents(ncols) == UNION {[0..(k - 1) -> 0..MaxCount] : k \in 0..ncols}

\* Any matrix of raw counts, explicit zeros included.  scipy allows the
\* index and value arrays to be longer than indptr[-1] (prune() trims them):
\* `slack` adds one such unused trailing entry.
InitNorm ==
    /\ IdleAnneal /\ IdleR2 /\ IdleKL /\ IdleVerify /\ IdleLogs
    /\ \E nrows \in 1..MaxRows, slack \in BOOLEAN :
        \E rows \in [1..nrows -> RowContents(MaxCols)] :
            LET m == BuildCSR(rows)
            IN  /\ csr_shape = <<nrows, MaxCols>>
                /\ csr_indptr = m.indptr
                /\ csr_indices = IF slack THEN Append(m.indices, 0) ELSE m.indices
                /\ csr_data = IF slack THEN Append(m.data, Num(1)) ELSE m.data
    /\ normalized = FALSE

NormalizeData ==
    /\ ~normalized
    /\ csr_data' = normalize_data(csr_shape, csr_indptr, csr_data, 0)
    /\ normalized' = TRUE
    /\ UNCHANGED <<csr_shape, csr_indptr, csr_indices>>
    /\ UNCHANGED <<annealVars, r2Vars, klVars, verifyVars, logVars>>

NextNorm == NormalizeData
SpecNorm == InitNorm /\ [][NextNorm]_vars

(***************************************************************************)
(* verify_data, extract_file_number                                        *)
(* (scripts/data-preprocessing/data_processing_functions.py)               *)
(*                                                                         *)
(* A path is a sequence of characters.  The checks of verify_data only     *)
(* compare row counts for equality and ids for membership, so row counts   *)
(* and ids are drawn from two-element sets.                                *)
(***************************************************************************)
DigitChars == <<"0", "1", "2", "3", "4", "5", "6", "7", "8", "9">>
IsDigit(c) == \E d \in 1..10 : DigitChars[d] = c
DigitValue(c) == (CHOOSE d \in 1..10 : DigitChars[d] = c) - 1

RECURSIVE Digits(_)
Digits(n) ==
    IF n < 10 THEN <<DigitChars[n + 1]>>
    ELSE Append(Digits(n \div 10), DigitChars[(n % 10) + 1])

\* int() of the run of digits of path that starts at position p
RECURSIVE ParseInt(_, _, _)
ParseInt(path, p, acc) ==
    IF p <= Len(path) /\ IsDigit(path[p])
    THEN ParseInt(path, p + 1, 10 * acc + DigitValue(path[p]))
    ELSE acc

\* re.search(r"_(\d+)", filename): the first "_" that a digit follows
extract_file_number(filename) ==
    LET hits == {p \in 1..(Len(filename) - 1) :
                    filename[p] = "_" /\ IsDigit(filename[p + 1])}
    IN  IF hits = {} THEN 0
        ELSE LET first == CHOOSE p \in hits : \A q \in hits : p <= q
             IN  ParseInt(filename, first + 1, 0)

\* os.path.join(directory, f"{species}_{n}.npz"), directory "d", species "s"
ChunkPath(n, ext) == <<"d", "/", "s", "_">> \o Digits(n) \o <<".", ext>>

\* glob.glob: the matching paths in an order the file system decides
RECURSIVE Glob(_)
Glob(paths) ==
    IF paths = {} THEN <<>>
    ELSE LET f == CHOOSE x \in paths : TRUE
         IN  <<f>> \o Glob(paths \ {f})

\* list.sort(key=extract_file_number): stable, ascending by key
RECURSIVE InsertByKey(_, _)
InsertByKey(sorted, f) ==
    IF sorted = <<>> THEN <<f>>
    ELSE IF extract_file_number(sorted[Len(sorted)]) <= extract_file_number(f)
         THEN Append(sorted, f)
         ELSE Append(InsertByKey(SubSeq(sorted, 1, Len(sorted) - 1), f),
                     sorted[Len(sorted)])

RECURSIVE SortByFileNumber(_)
SortByFileNumber(files) ==
    IF files = <<>> THEN <<>>
    ELSE InsertByKey(SortByFileNumber(SubSeq(files, 1, Len(files) - 1)),
                     files[Len(files)])

\* zip(data_files, metadata_files)
Zip(a, b) ==
    LET n == IF Len(a) < Len(b) THEN Len(a) ELSE Len(b)
    IN  [j \in 1..n |-> <<a[j], b[j]>>]

Range(f) == {f[x] : x \in DOMAIN f}
Line(msg, i) == [msg |-> msg, chunk |-> i]

\* Mutant of VerifyChunk: the duplicate test compares the number of distinct
\* ids with the matrix row count instead of the number of ids.
VerifyChunk_distinctAgainstRows(i, rows, soma_ids, expected, lastc, lasts) ==
    LET size_bad == /\ rows # expected
                    /\ \/ lastc # Some(i)
                       \/ lasts # Some(rows)
        num_ids == Len(soma_ids)
        meta_bad == num_ids # rows
        set_ids == Range(soma_ids)
        dup_bad == Cardinality(set_ids) # rows
        warnings == (IF size_bad THEN <<Line("Chunk size mismatch", i)>> ELSE <<>>)
                 \o (IF meta_bad THEN <<Line("Metadata mismatch", i)>> ELSE <<>>)
                 \o (IF dup_bad THEN <<Line("Duplicate IDs found", i)>> ELSE <<>>)
    IN  [lines |-> IF warnings = <<>> THEN <<Line("No issues found", i)>>
                   ELSE warnings,
         set_ids |-> set_ids]

\* Mutant of VerifyChunk: the metadata test counts the distinct ids instead of
\* the rows of the metadata.
VerifyChunk_distinctIdsAsRows(i, rows, soma_ids, expected, lastc, lasts) ==
    LET size_bad == /\ rows # expected
                    /\ \/ lastc # Some(i)
                       \/ lasts # Some(rows)
        num_ids == Len(soma_ids)
        set_ids == Range(soma_ids)
        meta_bad == Cardinality(set_ids) # rows
        dup_bad == Cardinality(set_ids) # num_ids
        warnings == (IF size_bad THEN <<Line("Chunk size mismatch", i)>> ELSE <<>>)
                 \o (IF meta_bad THEN <<Line("Metadata mismatch", i)>> ELSE <<>>)
                 \o (IF dup_bad THEN <<Line("Duplicate IDs found", i)>> ELSE <<>>)
    IN  [lines |-> IF warnings = <<>> THEN <<Line("No issues found", i)>>
                   ELSE warnings,
         set_ids |-> set_ids]

\* The body of the loop for chunk i: the lines it prints, and set_ids.
VerifyChunk(i, rows, soma_ids, expected, lastc, lasts) ==
    LET size_bad == /\ rows # expected
                    /\ \/ lastc # Some(i)
                       \/ lasts # Some(rows)
        num_ids == Len(soma_ids)
        meta_bad == num_ids # rows
        set_ids == Range(soma_ids)
        dup_bad == Cardinality(set_ids) # num_ids
        warnings == (IF size_bad THEN <<Line("Chunk size mismatch", i)>> ELSE <<>>)
                 \o (IF meta_bad THEN <<Line("Metadata mismatch", i)>> ELSE <<>>)
                 \o (IF dup_bad THEN <<Line("Duplicate IDs found", i)>> ELSE <<>>)
    IN  [lines |-> IF warnings = <<>> THEN <<Line("No issues found", i)>>
                   ELSE warnings,
         set_ids |-> set_ids]

\* The pairs the loop iterates over.
ChunkPairs(npz, pkl) ==
    LET data_files == SortByFileNumber(Glob(DOMAIN npz))
        metadata_files == SortByFileNumber(Glob(DOMAIN pkl))
    IN  Zip(data_files, metadata_files)

\* Mutant of verify_data: the scan stops at the first chunk with a warning.
RECURSIVE verify_data_stopOnError(_, _, _, _, _, _, _, _, _)
verify_data_stopOnError(pairs, i, npz, pkl, expected, lastc, lasts, idset, out) ==
    IF i > Len(pairs) THEN [printed |-> out, ids |-> idset]
    ELSE LET data_path == pairs[i][1]
             metadata_path == pairs[i][2]
             r == VerifyChunk(i, npz[data_path], pkl[metadata_path],
                              expected, lastc, lasts)
         IN  IF r.lines # <<Line("No issues found", i)>>
             THEN [printed |-> out \o r.lines, ids |-> idset \cap r.set_ids]
             ELSE verify_data_stopOnError(pairs, i + 1, npz, pkl, expected,
                                          lastc, lasts, idset \cap r.set_ids,
                                          out \o r.lines)

\* for i, (data_path, metadata_path) in enumerate(zip(...), start=1): the
\* iterations from i on, given the lines printed and the ids left so far.
RECURSIVE verify_data(_, _, _, _, _, _, _, _, _)
verify_data(pairs, i, npz, pkl, expected, lastc, lasts, idset, out) ==
    IF i > Len(pairs) THEN [printed |-> out, ids |-> idset]
    ELSE LET data_path == pairs[i][1]
             metadata_path == pairs[i][2]
             r == VerifyChunk(i, npz[data_path], pkl[metadata_path],
                              expected, lastc, lasts)
         IN  verify_data(pairs, i + 1, npz, pkl, expected, lastc, lasts,
                         idset \cap r.set_ids, out \o r.lines)

ChunkSizes == {1, 2}
SomaIds == {1, 2}
ChunkNumbers == 1..MaxChunks
SomaColumns == UNION {[1..n -> SomaIds] : n \in ChunkSizes}

\* Any directory of chunk files (a chunk's .npz or .pkl may be missing), the
\* expected sizes, and ids holding all expected soma_joinids.
InitVerify ==
    /\ IdleAnneal /\ IdleR2 /\ IdleKL /\ IdleNorm /\ IdleLogs
    /\ \E N \in SUBSET ChunkNumbers :
         npz_files \in [{ChunkPath(n, "npz") : n \in N} -> ChunkSizes]
    /\ \E N \in SUBSET ChunkNumbers :
         pkl_files \in [{ChunkPath(n, "pkl") : n \in N} -> SomaColumns]
    /\ expected_size \in ChunkSizes
    /\ \/ last_chunk = PyNone /\ last_size = PyNone
       \/ /\ last_chunk \in {Some(n) : n \in ChunkNumbers}
          /\ last_size \in {Some(z) : z \in ChunkSizes}
    /\ ids = SomaIds
    /\ loaded = <<>> /\ printed = <<>> /\ verified = FALSE

VerifyData ==
    /\ ~verified
    /\ LET pairs == ChunkPairs(npz_files, pkl_files)
           r == verify_data(pairs, 1, npz_files, pkl_files, expected_size,
                            last_chunk, last_size, ids, <<>>)
       IN  /\ loaded' = pairs
           /\ printed' = r.printed
           /\ ids' = r.ids
    /\ verified' = TRUE
    /\ UNCHANGED <<npz_files, pkl_files, expected_size, last_chunk, last_size>>
    /\ UNCHANGED <<annealVars, r2Vars, klVars, csrVars, logVars>>

NextVerify == VerifyData
SpecVerify == InitVerify /\ [][NextVerify]_vars

(***************************************************************************)
(* get_files, get_job_numbers, get_last_job_id, get_last_n_job_ids         *)
(* (src/cmmvae/runners/logger.py).  File names and job ids are strings:    *)
(* sequences of characters.                                                *)
(***************************************************************************)
ReturnNone == [k |-> "return", none |-> TRUE]
HasValue(r) == r # NoValue /\ r.k = "return" /\ "value" \in DOMAIN r

StartsWith(f, pre) == Len(f) >= Len(pre) /\ SubSeq(f, 1, Len(pre)) = pre
EndsWith(f, suf) ==
    Len(f) >= Len(suf) /\ SubSeq(f, Len(f) - Len(suf) + 1, Len(f)) = suf

JobPrefix == <<"j", "o", "b", ".">>
ErrSuffix == <<".", "e", "r", "r">>
OutSuffix == <<".", "o", "u", "t">>
JobFile(id, suffix) == JobPrefix \o id \o suffix

\* os.listdir: the names in an order the file system decides
RECURSIVE ListDir(_)
ListDir(names) ==
    IF names = {} THEN <<>>
    ELSE LET f == CHOOSE x \in names : TRUE
         IN  <<f>> \o ListDir(names \ {f})

\* [f for f in ... if f.startswith(starts_with) and f.endswith(ends_with)]
RECURSIVE SelectFiles(_, _, _)
SelectFiles(q, starts_with, ends_with) ==
    IF q = <<>> THEN <<>>
    ELSE (IF StartsWith(Head(q), starts_with) /\ EndsWith(Head(q), ends_with)
          THEN <<Head(q)>> ELSE <<>>)
         \o SelectFiles(Tail(q), starts_with, ends_with)

get_files(dir) == SelectFiles(ListDir(dir), JobPrefix, ErrSuffix)

\* The position after the run of digits of f that starts at p.
RECURSIVE DigitsEnd(_, _)
DigitsEnd(f, p) ==
    IF p <= Len(f) /\ IsDigit(f[p]) THEN DigitsEnd(f, p + 1) ELSE p

\* re.search(r'job\.(\d+)\.err', f): the positions where the pattern matches
JobMatches(f) ==
    {p \in 1..Len(f) :
        /\ p + 3 <= Len(f) /\ SubSeq(f, p, p + 3) = JobPrefix
        /\ LET e == DigitsEnd(f, p + 4)
           IN  /\ e > p + 4
               /\ e + 3 <= Len(f) /\ SubSeq(f, e, e + 3) = ErrSuffix}

\* matches.group(1) of the first match
JobNumberOf(f) ==
    LET p == CHOOSE q \in JobMatches(f) : \A r \in JobMatches(f) : q <= r
    IN  SubSeq(f, p + 4, DigitsEnd(f, p + 4) - 1)

RECURSIVE get_job_numbers(_)
get_job_numbers(err_files) ==
    IF err_files = <<>> THEN <<>>
    ELSE (IF JobMatches(Head(err_files)) # {}
          THEN <<JobNumberOf(Head(err_files))>> ELSE <<>>)
         \o get_job_numbers(Tail(err_files))

\* a < b for two strings of digits: Python compares strings character by
\* character, a proper prefix being the smaller string.
RECURSIVE StrLt(_, _)
StrLt(a, b) ==
    IF b = <<>> THEN FALSE
    ELSE IF a = <<>> THEN TRUE
    ELSE IF Head(a) # Head(b) THEN DigitValue(Head(a)) < DigitValue(Head(b))
    ELSE StrLt(Tail(a), Tail(b))

\* max(job_numbers): the first of the greatest elements
RECURSIVE PyMax(_)
PyMax(q) ==
    IF Len(q) = 1 THEN q[1]
    ELSE LET m == PyMax(SubSeq(q, 1, Len(q) - 1))
         IN  IF StrLt(m, q[Len(q)]) THEN q[Len(q)] ELSE m

\* sorted(job_numbers, reverse=True): stable, descending
RECURSIVE InsertDescending(_, _)
InsertDescending(sorted, x) ==
    IF sorted = <<>> THEN <<x>>
    ELSE IF ~StrLt(sorted[Len(sorted)], x) THEN Append(sorted, x)
         ELSE Append(InsertDescending(SubSeq(sorted, 1, Len(sorted) - 1), x),
                     sorted[Len(sorted)])

RECURSIVE SortedDescending(_)
SortedDescending(q) ==
    IF q = <<>> THEN <<>>
    ELSE InsertDescending(SortedDescending(SubSeq(q, 1, Len(q) - 1)), q[Len(q)])

\* q[:n]
Take(q, n) ==
    LET m == IF n >= 0 THEN (IF n < Len(q) THEN n ELSE Len(q))
             ELSE (IF Len(q) + n > 0 THEN Len(q) + n ELSE 0)
    IN  SubSeq(q, 1, m)

get_last_job_id(dir) ==
    LET err_files == get_files(dir)
    IN  IF err_files = <<>> THEN ReturnNone
        ELSE LET job_numbers == get_job_numbers(err_files)
             IN  IF job_numbers = <<>> THEN Raise("ValueError")
                 ELSE Return(PyMax(job_numbers))

get_last_n_job_ids(dir, n) ==
    Return(Take(SortedDescending(get_job_numbers(get_files(dir))), n))

JobIds == 1..MaxJobId
\* job.<id>.err for some job ids, possibly with the job.<id>.out files and a
\* file job.x.err that carries no number.
InitJobs ==
    /\ IdleAnneal /\ IdleR2 /\ IdleKL /\ IdleNorm /\ IdleVerify /\ IdleLogger
    /\ \E N \in SUBSET JobIds, with_out \in BOOLEAN, other \in BOOLEAN :
        rule_dir = {JobFile(Digits(i), ErrSuffix) : i \in N}
                   \cup (IF with_out THEN {JobFile(Digits(i), OutSuffix) : i \in N}
                         ELSE {})
                   \cup (IF other THEN {JobFile(<<"x">>, ErrSuffix)} ELSE {})
    /\ n_jobs \in 0..MaxN
    /\ last_job_id = NoValue /\ last_n_job_ids = NoValue

GetLastJobId ==
    /\ last_job_id = NoValue
    /\ last_job_id' = get_last_job_id(rule_dir)
    /\ UNCHANGED <<rule_dir, n_jobs, last_n_job_ids>>
    /\ UNCHANGED <<annealVars, r2Vars, klVars, csrVars, verifyVars, loggerVars>>

GetLastNJobIds ==
    /\ last_n_job_ids = NoValue
    /\ last_n_job_ids' = get_last_n_job_ids(rule_dir, n_jobs)
    /\ UNCHANGED <<rule_dir, n_jobs, last_job_id>>
    /\ UNCHANGED <<annealVars, r2Vars, klVars, csrVars, verifyVars, loggerVars>>

NextJobs == GetLastJobId \/ GetLastNJobIds
SpecJobs == InitJobs /\ [][NextJobs]_vars

(***************************************************************************)
(* Logger, Prompts (src/cmmvae/runners/logger.py)                          *)
(*                                                                         *)
(* The process runs until it waits for the user at a prompt or ends.  The  *)
(* stack holds the frames that still have work to do when their callee     *)
(* returns: the prompt loops and the views waiting for a prompt result; a  *)
(* call in tail position replaces its caller.  An exception or exit()      *)
(* unwinds the whole stack (nothing on it catches them) and becomes the    *)
(* status of the process.                                                  *)
(***************************************************************************)
Out == <<"o", "u", "t">>
Err == <<"e", "r", "r">>
FileTypes == {Out, Err}
FileStates == {"missing", "empty", "nonempty"}
SubmissionJobs == {9, 10}

\* _parse_submission_file: the rules of a submission log, as (rule,
\* rule_job_id) pairs.  Submission <id> ran the rule "r" as job <id>1.
RuleBlocks(jobid) == << <<(<<"r">>), jobid \o <<"1">> >> >>

Conf(hist, stk, st, v) ==
    [view_history |-> hist, stack |-> stk, status |-> st, vrf |-> v]

PromptFrame(prompt, valid) ==
    [f |-> "prompt_with_callbacks", prompt |-> prompt, valid_results |-> valid,
     back_returned |-> FALSE]

Top(stk) == stk[Len(stk)]
Pop(stk) == SubSeq(stk, 1, Len(stk) - 1)

\* str.lower() on the letters the answers use
LowerChar(c) == IF c = "B" THEN "b" ELSE IF c = "Q" THEN "q" ELSE c
Lower(x) == [j \in 1..Len(x) |-> LowerChar(x[j])]

\* dict lookups on the (rule, rule_job_id) pairs
RuleNames(rules) == [j \in 1..Len(rules) |-> rules[j][1]]
RuleJobIds(rules) == [j \in 1..Len(rules) |-> rules[j][2]]
JobIdOfRule(rules, rule) ==
    rules[CHOOSE j \in 1..Len(rules) :
            rules[j][1] = rule /\ \A l \in (j + 1)..Len(rules) : rules[l][1] # rule][2]
RuleOfJobId(rules, jid) ==
    rules[CHOOSE j \in 1..Len(rules) :
            rules[j][2] = jid /\ \A l \in (j + 1)..Len(rules) : rules[l][2] # jid][1]

\* Logger.get_path(rule, job_id, file_type)
get_path(rule, job_id, file_type) ==
    IF file_type # <<>> /\ ~(job_id # <<>> /\ rule # <<>>) THEN Raise("ValueError")
    ELSE IF job_id # <<>> /\ rule = <<>> THEN Raise("ValueError")
    ELSE Return([rule |-> rule,
                 file |-> IF job_id # <<>> /\ file_type # <<>> /\ rule # <<>>
                          THEN JobFile(job_id, <<".">> \o file_type) ELSE <<>>])

\* Logger.parse_submission_file(submission_jobid): open() raises when the
\* submission log does not exist.
parse_submission_file(dir, submission_jobid) ==
    IF JobFile(submission_jobid, ErrSuffix) \in dir
    THEN Return(RuleBlocks(submission_jobid))
    ELSE Raise("FileNotFoundError")

\* Logger.view_rule_files up to the point where it returns, raises or starts
\* scan_file: what it echoes and how it goes on.
view_rule_files(rule, rule_jobid, file_type, files) ==
    LET out_file == get_path(rule, rule_jobid, file_type)
        exists == files[file_type] # "missing"
    IN  IF out_file.k = "raise" THEN [echo |-> "", outcome |-> "ValueError"]
        ELSE IF exists THEN [echo |-> "not found", outcome |-> "return"]
        \* os.path.getsize(out_file) raises for a file that does not exist
        ELSE IF files[file_type] = "missing"
             THEN [echo |-> "", outcome |-> "FileNotFoundError"]
        ELSE IF files[file_type] = "empty"
             THEN [echo |-> "File is empty!", outcome |-> "return"]
        ELSE [echo |-> "", outcome |-> "scan_file"]

\* The valid_results of view_history: the jobs, then the rule job ids of each.
RECURSIVE HistoryValidResults(_, _)
HistoryValidResults(dir, jobs) ==
    IF jobs = <<>> THEN <<>>
    ELSE RuleJobIds(parse_submission_file(dir, Head(jobs)).value)
         \o HistoryValidResults(dir, Tail(jobs))

\* A function has returned to the frame on top of stk: with no frame left
\* the command is over; a prompt loop that called back_callback goes round
\* its while loop (valid is still False) and prompts again.
Finish(hist, stk, v) ==
    IF stk = <<>> THEN Conf(hist, <<>>, "returned", v)
    ELSE Conf(hist, Append(Pop(stk), [Top(stk) EXCEPT !.back_returned = TRUE]),
              "running", v)

\* A call of a recorded view: the wrapper of record_view_history appends the
\* view, then the view runs up to its first prompt.
CallView(name, args, hist, stk, v, dir) ==
    LET hist1 == Append(hist, <<name, args>>)
    IN  IF name = "view_history" THEN
            LET submission_jobs == get_last_n_job_ids(dir, args[1]).value
                valid_results == submission_jobs
                                 \o HistoryValidResults(dir, submission_jobs)
            IN  Conf(hist1,
                     stk \o <<[f |-> "view_history", n |-> args[1]],
                              PromptFrame("jobid", valid_results)>>,
                     "running", v)
        ELSE IF name = "view_submission" THEN
            LET found == IF args # <<>> THEN Return(args[1])
                         ELSE get_last_job_id(dir)
            IN  IF found.k = "raise" THEN Conf(hist1, <<>>, found.exc, v)
                ELSE IF ~HasValue(found) THEN Conf(hist1, <<>>, "RuntimeError", v)
                ELSE LET rules == parse_submission_file(dir, found.value)
                     IN  IF rules.k = "raise" THEN Conf(hist1, <<>>, rules.exc, v)
                         ELSE Conf(hist1,
                                   stk \o <<[f |-> "view_navigate_submission_rules",
                                            pc |-> "jobid", rules |-> rules.value,
                                            rule |-> <<>>, rule_jobid |-> <<>>],
                                           PromptFrame("jobid",
                                               RuleNames(rules.value)
                                               \o RuleJobIds(rules.value))>>,
                                   "running", v)
        ELSE \* view_file_type
            Conf(hist1,
                 stk \o <<[f |-> "view_file_type", rule |-> args[1],
                          rule_jobid |-> args[2]],
                         PromptFrame("file", <<Out, Err>>)>>,
                 "running", v)

\* self.view_rule_files(rule, rule_jobid, file_type) as the last statement of
\* a view; stk is the stack below that view.
CallViewRuleFiles(rule, rule_jobid, file_type, hist, stk, files) ==
    LET o == view_rule_files(rule, rule_jobid, file_type, files)
        v == [rule |-> rule, rule_jobid |-> rule_jobid, file_type |-> file_type,
              file_state |-> files[file_type], echo |-> o.echo,
              outcome |-> o.outcome]
    IN  IF o.outcome = "return" THEN Finish(hist, stk, v)
        ELSE IF o.outcome = "scan_file"
             THEN Conf(hist, Append(stk, [f |-> "scan_file"]), "running", v)
        ELSE Conf(hist, <<>>, o.outcome, v)

\* prompt_with_callbacks returns result to the view that called prompt_user;
\* stk is the stack with that view on top.
Deliver(result, hist, stk, v, dir, files) ==
    LET fr == Top(stk)
    IN  IF fr.f = "view_history" THEN
            LET submission_jobs == get_last_n_job_ids(dir, fr.n).value
                owners == {j \in 1..Len(submission_jobs) :
                             \E l \in 1..Len(RuleBlocks(submission_jobs[j])) :
                                 RuleBlocks(submission_jobs[j])[l][2] = result}
            IN  IF result \in Range(submission_jobs)
                THEN CallView("view_submission", <<result>>, hist, Pop(stk), v, dir)
                ELSE IF owners # {}
                THEN LET j == CHOOSE a \in owners : \A b \in owners : a <= b
                         rules == RuleBlocks(submission_jobs[j])
                         l == CHOOSE a \in 1..Len(rules) :
                                 /\ rules[a][2] = result
                                 /\ \A b \in 1..(a - 1) : rules[b][2] # result
                     IN  CallView("view_file_type", <<rules[l][1], result>>,
                                  hist, Pop(stk), v, dir)
                ELSE Finish(hist, Pop(stk), v)
        ELSE IF fr.f = "view_navigate_submission_rules" /\ fr.pc = "jobid" THEN
            LET is_rule == result \in Range(RuleNames(fr.rules))
                is_jobid == result \in Range(RuleJobIds(fr.rules))
            IN  IF (~is_rule /\ ~is_jobid) THEN Conf(hist, <<>>, "KeyError", v)
                ELSE Conf(hist,
                          Pop(stk) \o
                          <<[fr EXCEPT
                               !.pc = "file",
                               !.rule = IF is_rule THEN result
                                        ELSE RuleOfJobId(fr.rules, result),
                               !.rule_jobid = IF is_jobid THEN result
                                              ELSE JobIdOfRule(fr.rules, result)],
                            PromptFrame("file", <<Out, Err>>)>>,
                          "running", v)
        ELSE \* view_navigate_submission_rules after the file prompt, view_file_type
            CallViewRuleFiles(fr.rule, fr.rule_jobid, result, hist, Pop(stk), files)

\* Logger.back_callback, called by the prompt loop on top of stk
back_callback(hist, stk, v, dir) ==
    IF hist # <<>>
    THEN LET hist1 == Pop(hist)                 \* self._view_history.pop()
         IN  \* invoke_last_view
             IF hist1 = <<>> THEN Conf(hist1, <<>>, "exit(1)", v)
             ELSE LET view_info == Top(hist1)
                  IN  CallView(view_info[1], view_info[2], Pop(hist1), stk, v, dir)
    ELSE Conf(hist, <<>>, "RuntimeError", v)

\* One round of the while loop of prompt_with_callbacks for the answer result.
prompt_with_callbacks(result, hist, stk, v, dir, files) ==
    LET fr == Top(stk)
        lower_result == Lower(result)
    IN  IF lower_result \in {<<"q">>, <<"q", "u", "i", "t">>}
        THEN Conf(hist, <<>>, "exit(0)", v)
        ELSE IF lower_result \in {<<"b">>, <<"b", "a", "c", "k">>}
        THEN back_callback(hist, stk, v, dir)
        ELSE IF fr.valid_results = <<>> \/ result \in Range(fr.valid_results)
        THEN Deliver(result, hist, Pop(stk), v, dir, files)
        ELSE Conf(hist, stk, "running", v)      \* "Input is not valid!"

Answers ==
    {<<"q">>, <<"b">>, <<"B">>, <<"x">>, <<"r">>, Out, Err}
    \cup {Digits(i) : i \in SubmissionJobs}
    \cup {Digits(i) \o <<"1">> : i \in SubmissionJobs}

\* Any submission directory over the jobs 9 and 10; the log file of a rule
\* is missing, empty or non-empty, by file type.
InitLogger ==
    /\ IdleAnneal /\ IdleR2 /\ IdleKL /\ IdleNorm /\ IdleVerify /\ IdleJobs
    /\ \E N \in SUBSET SubmissionJobs :
        submission_dir = {JobFile(Digits(i), ErrSuffix) : i \in N}
    /\ rule_files \in [FileTypes -> FileStates]
    /\ view_history = <<>> /\ stack = <<>>
    /\ status = "idle" /\ vrf = NoValue

Become(c) ==
    /\ view_history' = c.view_history
    /\ stack' = c.stack
    /\ status' = c.status
    /\ vrf' = c.vrf
    /\ UNCHANGED <<submission_dir, rule_files>>
    /\ UNCHANGED <<annealVars, r2Vars, klVars, csrVars, verifyVars, jobsVars>>

\* logger last
Last ==
    /\ status = "idle"
    /\ Become(CallView("view_submission", <<>>, <<>>, <<>>, vrf, submission_dir))

\* logger job --job-id <job_id>
Job ==
    /\ status = "idle"
    /\ \E job_id \in {Digits(i) : i \in SubmissionJobs} :
        Become(CallView("view_submission", <<job_id>>, <<>>, <<>>, vrf,
                        submission_dir))

\* logger history -n <n>
History ==
    /\ status = "idle"
    /\ \E n \in 0..MaxN :
        Become(CallView("view_history", <<n>>, <<>>, <<>>, vrf, submission_dir))

\* The user answers the prompt the process waits at.
Answer ==
    /\ status = "running"
    /\ stack # <<>> /\ Top(stack).f = "prompt_with_callbacks"
    /\ \E result \in Answers :
        /\ Lower(result) \in {<<"b">>, <<"b", "a", "c", "k">>}
                => Len(stack) + 2 <= MaxDepth
        /\ Become(prompt_with_callbacks(result, view_history, stack, vrf,
                                        submission_dir, rule_files))

NextLogger == Last \/ Job \/ History \/ Answer
SpecLogger == InitLogger /\ [][NextLogger]_vars

(***************************************************************************)
(* The whole model: one of the functions is called on some input.          *)
(***************************************************************************)
Init == InitAnneal \/ InitR2 \/ InitKL \/ InitNorm \/ InitVerify \/ InitJobs
            \/ InitLogger
Next == CyclicAnnealing \/ CalculateR2 \/ KlDivergence \/ NormalizeData
            \/ VerifyData \/ GetLastJobId \/ GetLastNJobIds
            \/ Last \/ Job \/ History \/ Answer
Spec == Init /\ [][Next]_vars

\* C1: for every integer batch_iteration, cycle_length >= 1 and
\* min_beta <= max_beta, whatever the flags, the returned beta lies in
\* [min_beta, max_beta].
C1_BetaWithinBounds ==
    (beta_value # NoValue /\ FLe(min_beta, max_beta))
        => (FLe(min_beta, beta_value) /\ FLe(beta_value, max_beta))

\* The function has returned strictly inside the interval, on a downswing of
\* a negative iteration.
C1_Witness ==
    /\ beta_value # NoValue
    /\ batch_iteration < 0
    /\ ~ceil_downswings
    /\ FLt(min_beta, beta_value) /\ FLt(beta_value, max_beta)
    /\ 2 * (batch_iteration % cycle_length) > cycle_length

AtMidpoint ==
    /\ beta_value # NoValue
    /\ cycle_length % 2 = 0
    /\ batch_iteration % cycle_length = cycle_length \div 2

\* C2 as stated: at the cycle midpoint the result is max_beta when
\* floor_upswings is false and min_beta when floor_upswings is true.
C2_MidpointFlooredIsMin ==
    AtMidpoint => beta_value = (IF floor_upswings THEN min_beta ELSE max_beta)

\* C2 amended: at the cycle midpoint the result is max_beta for every
\* combination of ceil_downswings and floor_upswings (the midpoint belongs to
\* the downswing half, which floor_upswings does not affect).
C2_MidpointIsMax ==
    AtMidpoint => beta_value = max_beta

C2_Witness ==
    /\ AtMidpoint
    /\ floor_upswings /\ ~ceil_downswings
    /\ FLt(min_beta, max_beta)
    /\ beta_value = max_beta

R2Returned == r2_score # NoValue /\ r2_score.k = "return"
R2Raised == r2_score # NoValue /\ r2_score.k = "raise"
R2Identical == R2Returned /\ input = target /\ Numel(input) > 0

\* C3 as stated: for every non-empty tensor x, calculate_r2(x, x) returns
\* exactly 1.0 whatever the values of x are.
C3_IdenticalIsOne ==
    R2Identical => r2_score.value = Num(1)

\* C3 amended: for a non-empty x, ss_res is 0; calculate_r2(x, x) returns 1.0
\* when ss_tot is not 0, and nan (0/0) when ss_tot is 0, which is the case
\* when all elements of x are equal.
C3_IdenticalIsOneUnlessConstant ==
    R2Identical =>
        /\ ss_res = Num(0)
        /\ (ss_tot # Num(0) => r2_score.value = Num(1))
        /\ (ss_tot = Num(0) => r2_score.value = NaN)
        /\ (ss_tot = Num(0) <=>
                \A i \in 1..Numel(input) : input.data[i] = input.data[1])

C3_Witness ==
    /\ R2Identical
    /\ \E i \in 1..Numel(input) : input.data[i] # input.data[1]
    /\ r2_score.value = Num(1)

\* C4: calculate_r2 raises ValueError exactly when input.shape differs from
\* target.shape; when it raises, neither sum of squares has been computed and
\* no score is returned.
C4_ValueErrorIffShapesDiffer ==
    r2_score # NoValue =>
        /\ (r2_score = Raise("ValueError")) <=> (input.shape # target.shape)
        /\ R2Raised => (ss_tot = NoValue /\ ss_res = NoValue)
        /\ R2Returned => (ss_tot # NoValue /\ ss_res # NoValue)
        /\ R2Raised \/ R2Returned

\* A raise on shapes that differ although the element counts agree.
C4_Witness ==
    /\ r2_score = Raise("ValueError")
    /\ input.shape # target.shape
    /\ Numel(input) = Numel(target) /\ Numel(input) > 1

AllZero(t) == \A i \in 1..Numel(t) : t.data[i] = Num(0)

\* C5: for mu and logvar of any shape whose elements are all 0,
\* kl_divergence(mu, logvar) is 0.
C5_StandardNormalIsZero ==
    (kl # NoValue /\ AllZero(mu) /\ AllZero(logvar)) => kl.value = EZero

C5_Witness ==
    /\ kl = Return(EZero)
    /\ AllZero(mu) /\ AllZero(logvar)
    /\ Len(mu.shape) = 2 /\ Numel(mu) = MaxLen

Rows == 0..(csr_shape[1] - 1)
RowSlice(row) == (At(csr_indptr, row) + 1)..At(csr_indptr, row + 1)
StoredEnd == At(csr_indptr, csr_shape[1])
PreLog(v) == IF v.k = "log1p" THEN v.x ELSE NaN
PreLogSum(d, row) == FSum([j \in 1..Cardinality(RowSlice(row)) |->
                              PreLog(d[At(csr_indptr, row) + j])])

\* C6 as stated: after normalize_data, in every row with at least one stored
\* entry the values are log1p of scaled values that sum to 10,000, whatever
\* the stored values were.
C6_EveryRowSumsToTenThousand ==
    normalized =>
        \A row \in Rows : RowSlice(row) # {} =>
            /\ \A p \in RowSlice(row) : csr_data[p].k = "log1p"
            /\ PreLogSum(csr_data, row) = Num(10000)

\* C6 amended: normalize_data replaces each stored value v of a row by
\* log1p(v * 10000 / row_sum); the pre-log values of the row sum to 10,000
\* when row_sum is not 0, and every value of the row becomes nan when the
\* stored values are all explicit zeros (row_sum = 0).
C6_RowSumsToTenThousandUnlessZero ==
    [][NormalizeData =>
        \A row \in Rows : RowSlice(row) # {} =>
            LET row_sum == FSum(GetRowData(csr_indptr, csr_data, row))
            IN  /\ \A p \in RowSlice(row) :
                    csr_data'[p] =
                        Log1p(FDiv(FMul(csr_data[p], Num(10000)), row_sum))
                /\ row_sum # Num(0) =>
                    /\ \A p \in RowSlice(row) : csr_data'[p].k = "log1p"
                    /\ PreLogSum(csr_data', row) = Num(10000)
                /\ row_sum = Num(0) =>
                    \A p \in RowSlice(row) : csr_data'[p] = NaN]_vars

\* A normalized matrix of two rows, the second with two different stored
\* values whose pre-log values sum to 10,000.
C6_Witness ==
    /\ normalized
    /\ csr_shape[1] >= 2
    /\ Cardinality(RowSlice(1)) = 2
    /\ \A p \in RowSlice(1) : csr_data[p].k = "log1p"
    /\ \E p, q \in RowSlice(1) : csr_data[p] # csr_data[q]
    /\ PreLogSum(csr_data, 1) = Num(10000)

\* C7: normalize_data leaves shape, indptr, indices and the number of stored
\* entries unchanged, and writes data.data only inside the slices of the rows:
\* entries outside every row slice keep their value, and nothing is written
\* for a row without stored entries.
C7_SparsityPatternPreserved ==
    [][NormalizeData =>
        /\ csr_shape' = csr_shape
        /\ csr_indptr' = csr_indptr
        /\ csr_indices' = csr_indices
        /\ Len(csr_data') = Len(csr_data)
        /\ \A p \in 1..Len(csr_data) :
            (\A row \in Rows : p \notin RowSlice(row)) => csr_data'[p] = csr_data[p]
        /\ (\A row \in Rows : RowSlice(row) = {}) => csr_data' = csr_data]_vars

\* A normalized matrix with an empty row, a rewritten row and an unused
\* trailing entry that kept its raw value.
C7_Witness ==
    /\ normalized
    /\ \E row \in Rows : RowSlice(row) = {}
    /\ \E row \in Rows : \E p \in RowSlice(row) : csr_data[p].k = "log1p"
    /\ Len(csr_data) > StoredEnd
    /\ csr_data[Len(csr_data)] = Num(1)
    /\ Len(csr_indices) = Len(csr_data)

Scanned == 1..Len(loaded)
RowsOf(i) == npz_files[loaded[i][1]]
SomaIdsOf(i) == pkl_files[loaded[i][2]]
Printed(msg, i) == \E k \in 1..Len(printed) : printed[k] = Line(msg, i)
\* The size expected for the position of chunk i.
ExpectedFor(i) == IF last_chunk = Some(i) THEN last_size ELSE Some(expected_size)
SizeDiffers(i) == Some(RowsOf(i)) # ExpectedFor(i)
HasDuplicates(i) ==
    \E a, b \in 1..Len(SomaIdsOf(i)) : a # b /\ SomaIdsOf(i)[a] = SomaIdsOf(i)[b]

\* C8 as stated: a chunk-size-mismatch warning is printed for chunk i (and the
\* chunk gets no 'No issues found') exactly when its row count differs from
\* expected_size if i # last_chunk, from last_size if i = last_chunk.
C8_SizeWarningIffSizeDiffers ==
    verified =>
        \A i \in Scanned :
            /\ Printed("Chunk size mismatch", i) <=> SizeDiffers(i)
            /\ SizeDiffers(i) => ~Printed("No issues found", i)

\* C9: a duplicate-ID warning is printed for a chunk exactly when some
\* soma_joinid occurs more than once in its metadata, and then
\* 'No issues found' is not printed for that chunk.
C9_DuplicateWarningIffDuplicates ==
    verified =>
        \A i \in Scanned :
            /\ Printed("Duplicate IDs found", i) <=> HasDuplicates(i)
            /\ HasDuplicates(i) => ~Printed("No issues found", i)

\* A chunk of the expected size whose metadata has as many ids as the matrix
\* has rows, two of them equal: the duplicate warning is its only line.
C9_Witness ==
    /\ verified
    /\ \E i \in Scanned :
        /\ HasDuplicates(i)
        /\ RowsOf(i) = expected_size /\ Len(SomaIdsOf(i)) = RowsOf(i)
        /\ Printed("Duplicate IDs found", i)
        /\ ~Printed("Chunk size mismatch", i)
        /\ ~Printed("Metadata mismatch", i)
        /\ ~Printed("No issues found", i)

\* C10 as stated: when two chunks of one scan, each duplicate-free and of the
\* right size, share a soma_joinid, a warning is printed for one of them
\* instead of 'No issues found'.
C10_CrossChunkDuplicateReported ==
    verified =>
        \A i, j \in Scanned :
            ( /\ i < j
              /\ Range(SomaIdsOf(i)) \cap Range(SomaIdsOf(j)) # {}
              /\ \A c \in {i, j} :
                    /\ ~HasDuplicates(c)
                    /\ ~SizeDiffers(c)
                    /\ Len(SomaIdsOf(c)) = RowsOf(c) )
            => \E c \in {i, j} : ~Printed("No issues found", c)

\* C11: a metadata-mismatch warning is printed for a chunk exactly when the
\* number of rows of its metadata differs from the row count of its matrix.
C11_MetadataWarningIffRowCountsDiffer ==
    verified =>
        \A i \in Scanned :
            Printed("Metadata mismatch", i) <=> (Len(SomaIdsOf(i)) # RowsOf(i))

\* A chunk of the expected size with distinct ids, one id fewer than the
\* matrix has rows: the metadata warning is its only line.
C11_Witness ==
    /\ verified
    /\ \E i \in Scanned :
        /\ RowsOf(i) = expected_size
        /\ Len(SomaIdsOf(i)) < RowsOf(i)
        /\ ~HasDuplicates(i)
        /\ Printed("Metadata mismatch", i)
        /\ ~Printed("Chunk size mismatch", i)
        /\ ~Printed("Duplicate IDs found", i)
        /\ ~Printed("No issues found", i)

Warnings == {"Chunk size mismatch", "Metadata mismatch", "Duplicate IDs found"}
LinesOf(msgs, i) ==
    Cardinality({k \in 1..Len(printed) :
                    printed[k].chunk = i /\ printed[k].msg \in msgs})
Min(a, b) == IF a < b THEN a ELSE b

\* C12: a warning never stops the scan: every pair of the listing is loaded
\* and checked, in order, and each scanned chunk gets either at least one
\* warning or exactly one 'No issues found' line, never both.
C12_WarningsDoNotStopTheScan ==
    verified =>
        /\ Len(loaded) = Min(Cardinality(DOMAIN npz_files),
                             Cardinality(DOMAIN pkl_files))
        /\ \A k \in 1..Len(printed) : printed[k].chunk \in Scanned
        /\ \A k \in 1..(Len(printed) - 1) :
                printed[k].chunk <= printed[k + 1].chunk
        /\ \A i \in Scanned :
            /\ LinesOf({"No issues found"}, i) <= 1
            /\ (LinesOf(Warnings, i) >= 1) <=> (LinesOf({"No issues found"}, i) = 0)

\* A scan whose first chunk has a warning and whose second chunk, checked
\* after it, has none.
C12_Witness ==
    /\ verified
    /\ Len(loaded) >= 2
    /\ LinesOf(Warnings, 1) >= 2
    /\ Printed("No issues found", 2)

\* C16 as stated: for every pair loaded, extract_file_number gives the same
\* chunk number for both paths, and the index i of the pair is that number.
C16_PairsShareTheirChunkNumber ==
    verified =>
        \A i \in Scanned :
            /\ extract_file_number(loaded[i][1]) = extract_file_number(loaded[i][2])
            /\ extract_file_number(loaded[i][1]) = i

\* The integer job ids of the job.<id>.err files of rule_dir.
ErrJobIds == {i \in JobIds : JobFile(Digits(i), ErrSuffix) \in rule_dir}
IntOf(id) == ParseInt(id, 1, 0)

\* C13 as stated: get_last_job_id returns the id with the greatest integer
\* value, and get_last_n_job_ids the min(n, count) greatest ids in descending
\* numeric order, whatever the digit lengths of the ids.
C13_JobsOrderedNumerically ==
    /\ (HasValue(last_job_id) /\ ErrJobIds # {}) =>
            \A i \in ErrJobIds : i <= IntOf(last_job_id.value)
    /\ HasValue(last_n_job_ids) =>
        LET q == last_n_job_ids.value
        IN  /\ Len(q) = Min(n_jobs, Cardinality(ErrJobIds))
            /\ \A k \in 1..(Len(q) - 1) : IntOf(q[k]) > IntOf(q[k + 1])
            /\ \A k \in 1..Len(q) : IntOf(q[k]) \in ErrJobIds
            /\ \A i \in ErrJobIds :
                    (\E k \in 1..Len(q) : IntOf(q[k]) = i)
                    \/ (\A k \in 1..Len(q) : i < IntOf(q[k]))


\* C14: view_rule_files handles the three states of the selected log file
\* without raising: for a file that does not exist it echoes the 'not found'
\* message and returns, for an existing empty file it echoes 'File is
\* empty!' and returns, and an existing non-empty file it streams with
\* scan_file.
C14_RuleFileStatesHandled ==
    vrf # NoValue =>
        /\ vrf.file_state = "missing"
                => vrf.echo = "not found" /\ vrf.outcome = "return"
        /\ vrf.file_state = "empty"
                => vrf.echo = "File is empty!" /\ vrf.outcome = "return"
        /\ vrf.file_state = "nonempty" => vrf.outcome = "scan_file"

\* The recorded view a frame belongs to.
ViewOf(fr) ==
    IF fr.f = "view_navigate_submission_rules" THEN "view_submission" ELSE fr.f

\* The user answers 'b' or 'back' at a prompt of the view on top of the
\* history while a previous view is recorded below it: the only step of a
\* running browser that lets the stack grow.
BackStep ==
    /\ status = "running" /\ status' = "running"
    /\ Len(view_history) >= 2
    /\ Top(view_history)[1] = ViewOf(stack[Len(stack) - 1])
    /\ Len(stack') = Len(stack) + 2

\* A prompt loop whose back_callback has returned waits for the user again.
PromptsAgainAfterBack ==
    /\ status = "running" /\ stack # <<>>
    /\ Top(stack).f = "prompt_with_callbacks"
    /\ Top(stack).back_returned

\* C15: answering 'b' or 'back' at a prompt of view V, with a previous view P
\* below V in the history, re-invokes P with its recorded arguments and
\* leaves the history with V's entry removed and P once on top; and after P
\* finishes the prompt loop of V does not prompt again or open a file.
C15_BackAbandonsTheCurrentView ==
    /\ [][BackStep =>
            /\ view_history' = Pop(view_history)
            /\ ViewOf(stack'[Len(stack') - 1]) = Top(view_history')[1]]_vars
    /\ [](~PromptsAgainAfterBack)

====
